---- MODULE Spec2Model ----
(***************************************************************************)
(* Model of src/CTC/CTC.py: the CTC forward-backward algorithm (class CTC) *)
(* and the batch loss and gradient built on it (class CTCLoss).            *)
(*                                                                         *)
(* Arrays keep the source's 0-based indices: an array of shape (N,) is a   *)
(* function on 0..N-1, a table of shape (T, S) a function on 0..T-1 of     *)
(* functions on 0..S-1.  Real numbers are exact rationals <<n, d>> in      *)
(* lowest terms; the result of a division by zero (IEEE inf or nan) is the *)
(* absorbing value NonFinite.  Floating-point rounding is not modelled.    *)
(***************************************************************************)
EXTENDS Integers, Sequences, FiniteSets, TLC

VARIABLES pc, err, BLANK, target, logits, extended_symbols, skip_connect,
          alpha, beta, gamma,
          input_lengths, target_lengths, total_loss, loss, dY, converts,
          t_loop, s_done

vars == <<pc, err, BLANK, target, logits, extended_symbols, skip_connect,
          alpha, beta, gamma,
          input_lengths, target_lengths, total_loss, loss, dY, converts,
          t_loop, s_done>>

\* the position of a pass of class CTC that is run cell by cell: the row t
\* of its outer loop and the positions s of that row already computed
cellVars == <<t_loop, s_done>>

\* the state of a CTCLoss call, which the methods of class CTC leave alone
lossVars == <<input_lengths, target_lengths, total_loss, loss, dY, converts>>

(***************************************************************************)
(* Bounds of the model.                                                    *)
(***************************************************************************)
\* longest target label sequence
MaxLen == 2
\* largest number of time steps
MaxT == 2
\* vocabulary size (number of columns of a probability matrix)
NumSymbols == 3
\* number of distinct probability values k/(MaxNum+1), k in 1..MaxNum
MaxNum == 3

Symbols == 0..(NumSymbols - 1)

(***************************************************************************)
(* Exact arithmetic.                                                       *)
(***************************************************************************)
RECURSIVE GCD(_, _)
GCD(a, b) == IF b = 0 THEN a ELSE GCD(b, a % b)

Abs(n) == IF n < 0 THEN -n ELSE n

Norm(n, d) ==
    LET g == GCD(Abs(n), Abs(d))
        sgn == IF d < 0 THEN -1 ELSE 1
    IN  <<sgn * (n \div g), sgn * (d \div g)>>

Zero == <<0, 1>>
One == <<1, 1>>
NonFinite == <<0, 0>>
IsFinite(x) == x[2] # 0

RAdd(x, y) ==
    IF ~IsFinite(x) \/ ~IsFinite(y) THEN NonFinite
    ELSE Norm(x[1] * y[2] + y[1] * x[2], x[2] * y[2])

RMul(x, y) ==
    IF ~IsFinite(x) \/ ~IsFinite(y) THEN NonFinite
    ELSE Norm(x[1] * y[1], x[2] * y[2])

\* x / y for a finite divisor y; a zero divisor gives inf or nan
RDiv(x, y) ==
    IF ~IsFinite(x) \/ ~IsFinite(y) \/ y[1] = 0 THEN NonFinite
    ELSE Norm(x[1] * y[2], x[2] * y[1])

RNeg(x) == IF ~IsFinite(x) THEN NonFinite ELSE <<-x[1], x[2]>>

\* sum of f[i] for i in lo..hi, in index order
RECURSIVE RSum(_, _, _)
RSum(f, lo, hi) == IF hi < lo THEN Zero ELSE RAdd(RSum(f, lo, hi - 1), f[hi])

Len0(a) == Cardinality(DOMAIN a)

(***************************************************************************)
(* Inputs: probability matrices whose rows are rotations of the values     *)
(* 1/(MaxNum+1), ..., MaxNum/(MaxNum+1); row 0 is any rotation k, a later  *)
(* row is rotation k or k+1.                                               *)
(***************************************************************************)
ProbVal(k) == Norm(k, MaxNum + 1)

ProbRow(k) == [c \in Symbols |-> ProbVal(((c + k) % MaxNum) + 1)]

ProbMatrix(T, k, d) ==
    [t \in 0..(T - 1) |-> ProbRow(IF t = 0 THEN k ELSE k + d[t])]

ProbMatrices ==
    UNION {{ProbMatrix(T, k, d) : k \in 0..(MaxNum - 1), d \in [1..(T - 1) -> {0, 1}]} :
              T \in 1..MaxT}

Targets == UNION {[0..(L - 1) -> Symbols] : L \in 0..MaxLen}

(***************************************************************************)
(* class CTC                                                               *)
(***************************************************************************)
\* the list extended_symbols after k iterations of the loop of lines 42-44
RECURSIVE ExtendLoop(_, _, _)
ExtendLoop(blank, tgt, k) ==
    IF k = 0 THEN <<blank>>
    ELSE Append(Append(ExtendLoop(blank, tgt, k - 1), tgt[k - 1]), blank)

\* np.array(list).reshape((N,)): the list as a 0-based array
ToArray(list) == [i \in 0..(Len(list) - 1) |-> list[i + 1]]

\* mutant: the blank is always symbol 0
ExtSymbolsDefaultBlank(blank, tgt) == ToArray(ExtendLoop(0, tgt, Len0(tgt)))

ExtSymbols(blank, tgt) == ToArray(ExtendLoop(blank, tgt, Len0(tgt)))

\* the mask of lines 51-56
SkipConnect(ext) ==
    LET N == Len0(ext)
    IN  [i \in 0..(N - 1) |->
            IF i + 2 < N /\ ext[i] # ext[i + 2] THEN 1 ELSE 0]

P(lg, t, c) == lg[t][c]

\* mutant: row 0 holds the emission probability at every position
AlphaRow0Everywhere(lg, ext) ==
    [s \in DOMAIN ext |-> P(lg, 0, ext[s])]

AlphaRow0(lg, ext) ==
    [s \in DOMAIN ext |->
        IF s = 0 THEN P(lg, 0, ext[0])
        ELSE IF s = 1 THEN P(lg, 0, ext[1])
        ELSE Zero]

\* mutant: the transition from position s-1 is left out
AlphaStepNoPrev(prev, t, lg, ext, skip) ==
    [s \in DOMAIN ext |->
        RMul(RAdd(prev[s],
                  IF skip[s] # 0 /\ s - 2 >= 0 THEN prev[s - 2] ELSE Zero),
             P(lg, t, ext[s]))]

\* row t of alpha from row t-1: the body of the loop of lines 100-107
AlphaStep(prev, t, lg, ext, skip) ==
    [s \in DOMAIN ext |->
        RMul(RAdd(RAdd(prev[s],
                       IF s - 1 >= 0 THEN prev[s - 1] ELSE Zero),
                  IF skip[s] # 0 /\ s - 2 >= 0 THEN prev[s - 2] ELSE Zero),
             P(lg, t, ext[s]))]

RECURSIVE AlphaRow(_, _, _, _)
AlphaRow(t, lg, ext, skip) ==
    IF t = 0 THEN AlphaRow0(lg, ext)
    ELSE AlphaStep(AlphaRow(t - 1, lg, ext, skip), t, lg, ext, skip)

ForwardProbs(lg, ext, skip) ==
    [t \in DOMAIN lg |-> AlphaRow(t, lg, ext, skip)]

\* mutant: the last row is initialised at positions 0 and 1
BetaRawLastFront(lg, ext) ==
    LET T == Len0(lg)
    IN  [s \in DOMAIN ext |->
            IF s = 0 THEN P(lg, T - 1, ext[0])
            ELSE IF s = 1 THEN P(lg, T - 1, ext[1])
            ELSE Zero]

\* mutant: the last row is initialised at every position
BetaRawLastEverywhere(lg, ext) ==
    [s \in DOMAIN ext |-> P(lg, Len0(lg) - 1, ext[s])]

\* row T-1 of beta before the division phase (lines 141-142)
BetaRawLast(lg, ext) ==
    LET S == Len0(ext)
        T == Len0(lg)
    IN  [s \in DOMAIN ext |->
            IF s = S - 1 THEN P(lg, T - 1, ext[S - 1])
            ELSE IF s = S - 2 THEN P(lg, T - 1, ext[S - 2])
            ELSE Zero]

\* row t of beta from row t+1, before the division phase (lines 145-151)
BetaRawStep(next, t, lg, ext, skip) ==
    LET S == Len0(ext)
    IN  [s \in DOMAIN ext |->
            RMul(RAdd(RAdd(next[s],
                           IF s + 1 < S THEN next[s + 1] ELSE Zero),
                      IF skip[s] # 0 /\ s + 2 < S THEN next[s + 2] ELSE Zero),
                 P(lg, t, ext[s]))]

RECURSIVE BetaRawRow(_, _, _, _)
BetaRawRow(t, lg, ext, skip) ==
    IF t = Len0(lg) - 1 THEN BetaRawLast(lg, ext)
    ELSE BetaRawStep(BetaRawRow(t + 1, lg, ext, skip), t, lg, ext, skip)

\* mutant: the division phase skips the last row, range(T-1) for range(T)
BetaDivideSkipLast(raw, lg, ext) ==
    [t \in DOMAIN lg |->
        [s \in DOMAIN ext |->
            IF t = Len0(lg) - 1 THEN raw[t][s]
            ELSE RDiv(raw[t][s], P(lg, t, ext[s]))]]

\* the division phase (lines 153-155)
BetaDivide(raw, lg, ext) ==
    [t \in DOMAIN lg |->
        [s \in DOMAIN ext |-> RDiv(raw[t][s], P(lg, t, ext[s]))]]

BackwardProbs(lg, ext, skip) ==
    BetaDivide([t \in DOMAIN lg |-> BetaRawRow(t, lg, ext, skip)], lg, ext)

\* gamma = alpha * beta (line 184)
ElementwiseProduct(a, b) ==
    [t \in DOMAIN a |-> [s \in DOMAIN a[t] |-> RMul(a[t][s], b[t][s])]]

\* np.sum(gamma, axis=1) (line 185)
RowSums(g) ==
    [t \in DOMAIN g |-> RSum(g[t], 0, Len0(g[t]) - 1)]

\* gamma /= sumgamma (line 186) broadcasts the (T,) vector of row sums along
\* the last axis of the (T, S) table: this needs T = S or T = 1
PosteriorShapeOk(a) ==
    LET T == Len0(a)
        S == Len0(a[0])
    IN  T = S \/ T = 1

\* the divisor numpy pairs with gamma[t][s]
BroadcastSum(sums, t, s) == IF Len0(sums) = 1 THEN sums[0] ELSE sums[s]

PosteriorProbs(a, b) ==
    LET g == ElementwiseProduct(a, b)
        sums == RowSums(g)
    IN  [t \in DOMAIN g |->
            [s \in DOMAIN g[t] |-> RDiv(g[t][s], BroadcastSum(sums, t, s))]]

None == <<>>

NoLossCall ==
    /\ input_lengths = None
    /\ target_lengths = None
    /\ total_loss = None
    /\ loss = None
    /\ dY = None
    /\ converts = TRUE

NoCellLoop ==
    /\ t_loop = 0
    /\ s_done = {}

(***************************************************************************)
(* The methods of class CTC as steps of one pipeline                       *)
(***************************************************************************)
extend_target_with_blank ==
    /\ pc = "start"
    /\ extended_symbols' = ExtSymbols(BLANK, target)
    /\ skip_connect' = SkipConnect(ExtSymbols(BLANK, target))
    /\ pc' = "extended"
    /\ UNCHANGED <<err, BLANK, target, logits, alpha, beta, gamma>>
    /\ UNCHANGED lossVars
    /\ UNCHANGED cellVars

\* alpha[0][1] = logits[0][extended_symbols[1]] raises IndexError when S = 1
get_forward_probs ==
    /\ pc = "extended"
    /\ IF Len0(extended_symbols) < 2
       THEN /\ err' = "IndexError"
            /\ pc' = "failed"
            /\ UNCHANGED alpha
       ELSE /\ alpha' = ForwardProbs(logits, extended_symbols, skip_connect)
            /\ pc' = "forward"
            /\ UNCHANGED err
    /\ UNCHANGED <<BLANK, target, logits, extended_symbols, skip_connect,
                   beta, gamma>>
    /\ UNCHANGED lossVars
    /\ UNCHANGED cellVars

get_backward_probs ==
    /\ pc = "forward"
    /\ beta' = BackwardProbs(logits, extended_symbols, skip_connect)
    /\ pc' = "backward"
    /\ UNCHANGED <<err, BLANK, target, logits, extended_symbols, skip_connect,
                   alpha, gamma>>
    /\ UNCHANGED lossVars
    /\ UNCHANGED cellVars

get_posterior_probs ==
    /\ pc = "backward"
    /\ IF PosteriorShapeOk(alpha)
       THEN /\ gamma' = PosteriorProbs(alpha, beta)
            /\ pc' = "posterior"
            /\ UNCHANGED err
       ELSE /\ err' = "ValueError"
            /\ pc' = "failed"
            /\ UNCHANGED gamma
    /\ UNCHANGED <<BLANK, target, logits, extended_symbols, skip_connect,
                   alpha, beta>>
    /\ UNCHANGED lossVars
    /\ UNCHANGED cellVars

\* a CTC object with any BLANK, one target and one (T, C) probability matrix
Init ==
    /\ pc = "start"
    /\ err = "none"
    /\ BLANK \in Symbols
    /\ target \in Targets
    /\ logits \in ProbMatrices
    /\ extended_symbols = None
    /\ skip_connect = None
    /\ alpha = None
    /\ beta = None
    /\ gamma = None
    /\ NoLossCall
    /\ NoCellLoop

Next ==
    \/ extend_target_with_blank
    \/ get_forward_probs
    \/ get_backward_probs
    \/ get_posterior_probs

Spec == Init /\ [][Next]_vars

(***************************************************************************)
(* The forward and backward passes on any extended sequence and skip mask  *)
(***************************************************************************)
\* longest extended sequence handed directly to the passes
MaxS == 3

ExtSequences == UNION {[0..(S - 1) -> Symbols] : S \in 3..MaxS}

InitPass ==
    /\ pc = "extended"
    /\ err = "none"
    /\ BLANK = 0
    /\ target = None
    /\ logits \in ProbMatrices
    /\ extended_symbols \in ExtSequences
    /\ skip_connect \in [DOMAIN extended_symbols -> {0, 1}]
    /\ alpha = None
    /\ beta = None
    /\ gamma = None
    /\ NoLossCall
    /\ NoCellLoop

NextPass ==
    \/ get_forward_probs
    \/ get_backward_probs

SpecPass == InitPass /\ [][NextPass]_vars

(***************************************************************************)
(* The posterior of any two tables of one shape                            *)
(***************************************************************************)
Tables ==
    UNION {[0..(T - 1) -> [0..(S - 1) -> {Zero, One}]] :
              T \in 1..MaxT, S \in 1..(MaxLen + 1)}

InitPosterior ==
    /\ pc = "backward"
    /\ err = "none"
    /\ BLANK = 0
    /\ target = None
    /\ logits = None
    /\ extended_symbols = None
    /\ skip_connect = None
    /\ alpha \in Tables
    /\ beta \in {b \in Tables :
                    Len0(b) = Len0(alpha) /\ Len0(b[0]) = Len0(alpha[0])}
    /\ gamma = None
    /\ NoLossCall
    /\ NoCellLoop

NextPosterior == get_posterior_probs

SpecPosterior == InitPosterior /\ [][NextPosterior]_vars

(***************************************************************************)
(* Logarithms.  A value of the loss is a rational combination of 1 and of  *)
(* the logarithms of the primes, which are linearly independent over the   *)
(* rationals: the function k |-> coefficient, k = 1 for the rational part. *)
(***************************************************************************)
Primes == {p \in 2..(MaxNum + 1) : \A q \in 2..(p - 1) : p % q # 0}

LossBasis == {1} \cup Primes

RECURSIVE Expo(_, _)
Expo(p, n) == IF n % p = 0 THEN 1 + Expo(p, n \div p) ELSE 0

\* np.log(x) of a positive rational x
LogOf(x) ==
    [k \in LossBasis |->
        IF k = 1 THEN Zero ELSE <<Expo(k, x[1]) - Expo(k, x[2]), 1>>]

LNonFinite == [k \in LossBasis |-> NonFinite]
LZero == [k \in LossBasis |-> Zero]
LCanon(v) == IF \E k \in LossBasis : ~IsFinite(v[k]) THEN LNonFinite ELSE v
LFromRat(r) == LCanon([k \in LossBasis |-> IF k = 1 THEN r ELSE Zero])
LAdd(v, w) == LCanon([k \in LossBasis |-> RAdd(v[k], w[k])])
LScale(r, v) == LCanon([k \in LossBasis |-> RMul(r, v[k])])
LNeg(v) == [k \in LossBasis |-> RNeg(v[k])]

RECURSIVE LSum(_, _, _)
LSum(f, lo, hi) == IF hi < lo THEN LZero ELSE LAdd(LSum(f, lo, hi - 1), f[hi])

(***************************************************************************)
(* class CTCLoss                                                           *)
(***************************************************************************)
\* lhs[...] = rhs[:n] with lhs of length full: numpy broadcasts a slice of
\* length 1, takes a slice of full length as it is, and raises otherwise
BroadcastOk(n, full) == n >= full \/ n = 1

\* mutant: the row is replaced by its mirror image, target[b, ::-1]
TruncateTargetMirror(tg, b, n) ==
    IF n >= Len0(tg[b]) THEN tg
    ELSE [tg EXCEPT ![b] = [i \in DOMAIN tg[b] |-> tg[b][Len0(tg[b]) - 1 - i]]]

\* target[b] = target[b, :n] (lines 265, 336)
TruncateTarget(tg, b, n) ==
    IF n >= Len0(tg[b]) THEN tg
    ELSE [tg EXCEPT ![b] = [i \in DOMAIN tg[b] |-> tg[b][0]]]

\* mutant: the slice is taken from the end, logits[-n:, b, :]
TruncateLogitsTail(lg, b, n) ==
    IF n >= Len0(lg) THEN lg
    ELSE [t \in DOMAIN lg |-> [lg[t] EXCEPT ![b] = lg[Len0(lg) - 1][b]]]

\* logits[:, b, :] = logits[:n, b, :] (lines 267, 338)
TruncateLogits(lg, b, n) ==
    IF n >= Len0(lg) THEN lg
    ELSE [t \in DOMAIN lg |-> [lg[t] EXCEPT ![b] = lg[0][b]]]

\* what logits[t][sym] is to get_forward_probs and get_backward_probs when
\* they are handed the (T, B, C) array (lines 272-274, 343-345): sym indexes
\* the batch axis, and the (C,) row read there can be stored in one cell of
\* alpha or beta only when C = 1.  Storing a one-element array as a number
\* is deprecated since numpy 1.25: converts tells whether the installed
\* numpy still does it (else TypeError).
BatchAsSymbols(lg) ==
    [t \in DOMAIN lg |-> [b \in DOMAIN lg[t] |-> lg[t][b][0]]]

NumClasses(lg) == Len0(lg[0][0])

\* lines 269-276 and 340-347 for batch element b, after the truncations
SamplePosterior(lg, ext, conv) ==
    LET skip == SkipConnect(ext)
        lg2 == BatchAsSymbols(lg)
        a == ForwardProbs(lg2, ext, skip)
        bt == BackwardProbs(lg2, ext, skip)
    IN  IF NumClasses(lg) # 1
        THEN [err |-> "ValueError", gamma |-> None]
        ELSE IF ~conv
        THEN [err |-> "TypeError", gamma |-> None]
        ELSE IF \E s \in DOMAIN ext : ext[s] >= Len0(lg[0])
        THEN [err |-> "IndexError", gamma |-> None]
        ELSE IF ~PosteriorShapeOk(a)
        THEN [err |-> "ValueError", gamma |-> None]
        ELSE [err |-> "none", gamma |-> PosteriorProbs(a, bt)]

\* lines 278-281: the rows t < n of the posterior are weighted by the log
\* of the sample's probability, then the whole table is summed and negated
SampleLoss(g, lg, b, ext, n) ==
    LNeg(LSum([t \in DOMAIN g |->
                  LSum([s \in DOMAIN ext |->
                           IF t < n
                           THEN LScale(g[t][s], LogOf(lg[t][b][ext[s]]))
                           ELSE LFromRat(g[t][s])],
                       0, Len0(ext) - 1)],
              0, Len0(g) - 1))

\* one iteration of the loop of forward (lines 260-289) on the call's state
ForwardIter(st, b, il, tl, conv) ==
    IF ~BroadcastOk(tl[b], Len0(st.target[b]))
    THEN [st EXCEPT !.err = "ValueError"]
    ELSE LET tg == TruncateTarget(st.target, b, tl[b])
         IN  IF ~BroadcastOk(il[b], Len0(st.logits))
             THEN [st EXCEPT !.err = "ValueError", !.target = tg]
             ELSE LET lg == TruncateLogits(st.logits, b, il[b])
                      ext == ExtSymbols(0, tg[b])
                      post == SamplePosterior(lg, ext, conv)
                      st1 == [st EXCEPT !.target = tg, !.logits = lg,
                                 !.extended_symbols = Append(@, ext)]
                  IN  IF post.err # "none"
                      THEN [st1 EXCEPT !.err = post.err]
                      ELSE [st1 EXCEPT !.total_loss =
                               [i \in 0..b |->
                                   IF i = b
                                   THEN SampleLoss(post.gamma, lg, b, ext, il[b])
                                   ELSE @[i]]]

RECURSIVE ForwardLoop(_, _, _, _, _)
ForwardLoop(st, b, il, tl, conv) ==
    IF b = Len0(st.target) \/ st.err # "none" THEN st
    ELSE ForwardLoop(ForwardIter(st, b, il, tl, conv), b + 1, il, tl, conv)

\* np.sum(total_loss) / B (line 291)
BatchMean(losses) ==
    LET B == Len0(losses)
        total == LSum(losses, 0, B - 1)
    IN  [k \in LossBasis |-> RDiv(total[k], <<B, 1>>)]

\* CTCLoss.forward as a function of its arguments
Forward(lg, tg, il, tl, conv) ==
    LET st == ForwardLoop([logits |-> lg, target |-> tg,
                           extended_symbols |-> <<>>, total_loss |-> <<>>,
                           err |-> "none"], 0, il, tl, conv)
    IN  [logits |-> st.logits, target |-> st.target,
         extended_symbols |-> st.extended_symbols,
         total_loss |-> IF st.err = "none" THEN st.total_loss ELSE None,
         loss |-> IF st.err = "none" THEN BatchMean(st.total_loss) ELSE None,
         err |-> st.err]

\* mutant: line 356 is left out and the tensor of the previous call is
\* reused, so the loop of lines 357-358 adds to what dY[t, b, c] held
RECURSIVE GradCellAccumulate(_, _, _, _, _, _, _)
GradCellAccumulate(g, lg, ext, t, b, c, s) ==
    IF s < 0 THEN (IF dY = None THEN Zero ELSE dY[t][b][c])
    ELSE LET before == GradCellAccumulate(g, lg, ext, t, b, c, s - 1)
         IN  IF ext[s] = c
             THEN RAdd(before, RNeg(RDiv(g[t][s], lg[t][b][c])))
             ELSE before

\* dY[t, b, c] after the loop of lines 357-358 has run over positions 0..s
RECURSIVE GradCell(_, _, _, _, _, _, _)
GradCell(g, lg, ext, t, b, c, s) ==
    IF s < 0 THEN Zero
    ELSE LET before == GradCell(g, lg, ext, t, b, c, s - 1)
         IN  IF ext[s] = c
             THEN RAdd(before, RNeg(RDiv(g[t][s], lg[t][b][c])))
             ELSE before

\* one iteration of the loop of backward (lines 333-359)
BackwardIter(st, b, il, tl, conv) ==
    IF ~BroadcastOk(tl[b], Len0(st.target[b]))
    THEN [st EXCEPT !.err = "ValueError"]
    ELSE LET tg == TruncateTarget(st.target, b, tl[b])
         IN  IF ~BroadcastOk(il[b], Len0(st.logits))
             THEN [st EXCEPT !.err = "ValueError", !.target = tg]
             ELSE LET lg == TruncateLogits(st.logits, b, il[b])
                      ext == ExtSymbols(0, tg[b])
                      post == SamplePosterior(lg, ext, conv)
                      st1 == [st EXCEPT !.target = tg, !.logits = lg]
                  IN  IF post.err # "none"
                      THEN [st1 EXCEPT !.err = post.err]
                      ELSE [st1 EXCEPT !.dY =
                               [t \in DOMAIN lg |->
                                   [@[t] EXCEPT ![b] =
                                       [c \in DOMAIN lg[t][b] |->
                                           GradCell(post.gamma, lg, ext, t, b,
                                                    c, Len0(ext) - 1)]]]]

RECURSIVE BackwardLoop(_, _, _, _, _)
BackwardLoop(st, b, il, tl, conv) ==
    IF b = Len0(st.logits[0]) \/ st.err # "none" THEN st
    ELSE BackwardLoop(BackwardIter(st, b, il, tl, conv), b + 1, il, tl, conv)

\* np.full_like(self.logits, 0) (line 326)
ZerosLike(lg) ==
    [t \in DOMAIN lg |-> [b \in DOMAIN lg[t] |-> [c \in DOMAIN lg[t][b] |-> Zero]]]

\* CTCLoss.backward as a function of the fields forward has stored
Backward(lg, tg, il, tl, conv) ==
    LET st == BackwardLoop([logits |-> lg, target |-> tg, dY |-> ZerosLike(lg),
                            err |-> "none"], 0, il, tl, conv)
    IN  [logits |-> st.logits, target |-> st.target,
         dY |-> IF st.err = "none" THEN st.dY ELSE None,
         err |-> st.err]

passVars == <<skip_connect, alpha, beta, gamma>>

\* loss = CTCLoss.forward(logits, target, input_lengths, target_lengths)
forward ==
    LET r == Forward(logits, target, input_lengths, target_lengths, converts)
    IN  /\ logits' = r.logits
        /\ target' = r.target
        /\ extended_symbols' = r.extended_symbols
        /\ total_loss' = r.total_loss
        /\ loss' = r.loss
        /\ err' = r.err
        /\ pc' = IF r.err = "none" THEN "forward_returned" ELSE "forward_raised"
        /\ UNCHANGED <<BLANK, input_lengths, target_lengths, dY, converts>>
        /\ UNCHANGED passVars
        /\ UNCHANGED cellVars

\* mutant: backward() returns the gradient it has computed before, if any
backwardCached ==
    IF pc = "constructed"
    THEN /\ err' = "AttributeError"
         /\ pc' = "backward_raised_unset"
         /\ UNCHANGED <<BLANK, target, logits, extended_symbols, total_loss,
                        loss, dY, input_lengths, target_lengths, converts>>
         /\ UNCHANGED passVars
         /\ UNCHANGED cellVars
    ELSE /\ pc # "backward_raised_unset"
         /\ LET r == Backward(logits, target, input_lengths, target_lengths,
                              converts)
            IN  /\ logits' = r.logits
                /\ target' = r.target
                /\ dY' = IF dY # None THEN dY ELSE r.dY
                /\ err' = r.err
                /\ pc' = IF r.err = "none" THEN "backward_returned"
                         ELSE "backward_raised"
         /\ UNCHANGED <<BLANK, extended_symbols, total_loss, loss,
                        input_lengths, target_lengths, converts>>
         /\ UNCHANGED passVars
         /\ UNCHANGED cellVars

\* dY = CTCLoss.backward(); before any forward() the fields it reads are
\* not set and the call raises AttributeError
backward ==
    IF pc = "constructed"
    THEN /\ err' = "AttributeError"
         /\ pc' = "backward_raised_unset"
         /\ UNCHANGED <<BLANK, target, logits, extended_symbols, total_loss,
                        loss, dY, input_lengths, target_lengths, converts>>
         /\ UNCHANGED passVars
         /\ UNCHANGED cellVars
    ELSE /\ pc # "backward_raised_unset"
         /\ LET r == Backward(logits, target, input_lengths, target_lengths,
                              converts)
            IN  /\ logits' = r.logits
                /\ target' = r.target
                /\ dY' = r.dY
                /\ err' = r.err
                /\ pc' = IF r.err = "none" THEN "backward_returned"
                         ELSE "backward_raised"
         /\ UNCHANGED <<BLANK, extended_symbols, total_loss, loss,
                        input_lengths, target_lengths, converts>>
         /\ UNCHANGED passVars
         /\ UNCHANGED cellVars

\* largest number of time steps of a batch
MaxSeq == 3

BatchSizes == {1, 2}

\* the (T, B, C) array whose sample b is the rotation k[b] of the
\* probability values, advancing by one at every time step
BatchLogits(T, C, k) ==
    [t \in 0..(T - 1) |->
        [b \in DOMAIN k |->
            [c \in 0..(C - 1) |-> ProbVal(((c + k[b] + t) % MaxNum) + 1)]]]

\* the (B, W) array whose row b counts up from label k[b], within 0..C-1
BatchTargets(W, C, k) ==
    [b \in DOMAIN k |-> [i \in 0..(W - 1) |-> (k[b] + i) % C]]

InitLoss ==
    /\ pc = "constructed"
    /\ err = "none"
    /\ converts \in BOOLEAN
    /\ \E B \in BatchSizes, T \in 1..MaxSeq, C \in 1..NumSymbols, W \in 1..MaxLen :
          /\ BLANK \in {0, C - 1}
          /\ \E k \in [0..(B - 1) -> 0..(MaxNum - 1)] :
                /\ logits = BatchLogits(T, C, k)
                /\ target = BatchTargets(W, C, k)
          /\ input_lengths \in [0..(B - 1) -> 1..T]
          /\ target_lengths \in [0..(B - 1) -> 1..W]
    /\ extended_symbols = None
    /\ total_loss = None
    /\ loss = None
    /\ dY = None
    /\ skip_connect = None
    /\ alpha = None
    /\ beta = None
    /\ gamma = None
    /\ NoCellLoop

NextLoss ==
    \/ forward
    \/ backward

SpecLoss == InitLoss /\ [][NextLoss]_vars

(***************************************************************************)
(* Claims about class CTC                                                  *)
(***************************************************************************)
Extended == pc # "start"
TargetLen == Len0(target)
S_ == Len0(extended_symbols)
T_ == Len0(logits)

\* C1: for a label sequence of length L >= 1 and any BLANK, the extended
\* sequence has length exactly 2L+1, holds BLANK at every even position
\* (the first and the last included) and label[i] at position 2i+1.
C1_ExtendedShape ==
    (Extended /\ TargetLen >= 1) =>
        /\ S_ = 2 * TargetLen + 1
        /\ \A s \in 0..(S_ - 1) : s % 2 = 0 => extended_symbols[s] = BLANK
        /\ \A i \in 0..(TargetLen - 1) : extended_symbols[2 * i + 1] = target[i]

C1_Witness ==
    /\ pc = "extended"
    /\ TargetLen = 2
    /\ BLANK # 0
    /\ target[0] # target[1]
    /\ target[0] # BLANK

\* C2: the skip mask is 0 at every position s < 2 and, at s >= 2, it is 1
\* exactly when extended[s] # extended[s-2].
C2_SkipMaskLooksBack ==
    Extended =>
        \A s \in 0..(S_ - 1) :
            skip_connect[s] =
                (IF s >= 2 /\ extended_symbols[s] # extended_symbols[s - 2]
                 THEN 1 ELSE 0)

\* what the code computes instead: the mask looks ahead
C2_Witness ==
    /\ pc = "extended"
    /\ TargetLen = 2
    /\ skip_connect[1] = 1
    /\ skip_connect[3] = 0

PAt(t, s) == P(logits, t, extended_symbols[s])

\* C3: alpha[0][0] = P(0, ext[0]), alpha[0][1] = P(0, ext[1]), alpha[0][s] = 0
\* for s >= 2, and for t >= 1: alpha[t][s] = (alpha[t-1][s] + alpha[t-1][s-1]
\* (if s >= 1) + alpha[t-1][s-2] (if mask[s] and s >= 2)) * P(t, ext[s]).
C3_ForwardRecurrence ==
    (alpha # None /\ S_ >= 3) =>
        /\ DOMAIN alpha = 0..(T_ - 1)
        /\ \A t \in 0..(T_ - 1) : DOMAIN alpha[t] = 0..(S_ - 1)
        /\ alpha[0][0] = PAt(0, 0)
        /\ alpha[0][1] = PAt(0, 1)
        /\ \A s \in 2..(S_ - 1) : alpha[0][s] = Zero
        /\ \A t \in 1..(T_ - 1) : \A s \in 0..(S_ - 1) :
              alpha[t][s] =
                RMul(RAdd(RAdd(alpha[t - 1][s],
                               IF s >= 1 THEN alpha[t - 1][s - 1] ELSE Zero),
                          IF skip_connect[s] = 1 /\ s >= 2
                          THEN alpha[t - 1][s - 2] ELSE Zero),
                     PAt(t, s))

C3_Witness ==
    /\ pc = "forward"
    /\ T_ = MaxT
    /\ S_ = 3
    /\ skip_connect[2] = 1
    /\ alpha[T_ - 1][2] # Zero
    /\ alpha[1][2] # RMul(RAdd(alpha[0][2], alpha[0][1]), PAt(1, 2))

\* C4: with the mask of extend_target_with_blank, mass flows from position
\* s-2 at time t-1 into position s at time t exactly when s >= 2 and
\* extended[s] # extended[s-2].
C4_SkipTopology ==
    alpha # None =>
        \A t \in 1..(T_ - 1) : \A s \in 0..(S_ - 1) :
            alpha[t][s] =
                RMul(RAdd(RAdd(alpha[t - 1][s],
                               IF s >= 1 THEN alpha[t - 1][s - 1] ELSE Zero),
                          IF s >= 2 /\ extended_symbols[s] # extended_symbols[s - 2]
                          THEN alpha[t - 1][s - 2] ELSE Zero),
                     PAt(t, s))

\* C5: the table of get_backward_probs equals the table of the direct
\* recurrence: beta[T-1][S-1] = beta[T-1][S-2] = 1, other beta[T-1][s] = 0,
\* and for t < T-1: beta[t][s] = P(t+1,ext[s])*beta[t+1][s] +
\* P(t+1,ext[s+1])*beta[t+1][s+1] (if s+1 < S) + P(t+1,ext[s+2])*beta[t+1][s+2]
\* (if mask[s] and s+2 < S).
C5_BackwardDirect ==
    (beta # None /\ S_ >= 3) =>
        /\ DOMAIN beta = 0..(T_ - 1)
        /\ \A s \in 0..(S_ - 1) :
              beta[T_ - 1][s] = (IF s >= S_ - 2 THEN One ELSE Zero)
        /\ \A t \in 0..(T_ - 2) : \A s \in 0..(S_ - 1) :
              beta[t][s] =
                RAdd(RAdd(RMul(PAt(t + 1, s), beta[t + 1][s]),
                          IF s + 1 < S_
                          THEN RMul(PAt(t + 1, s + 1), beta[t + 1][s + 1])
                          ELSE Zero),
                     IF skip_connect[s] = 1 /\ s + 2 < S_
                     THEN RMul(PAt(t + 1, s + 2), beta[t + 1][s + 2])
                     ELSE Zero)

C5_Witness ==
    /\ pc = "backward"
    /\ T_ = MaxT
    /\ skip_connect[0] = 1
    /\ beta[0][0] # Zero
    /\ beta[0][0] # One
    /\ extended_symbols[0] # extended_symbols[2]

ProductRowSum(t) ==
    RSum([s \in DOMAIN alpha[t] |-> RMul(alpha[t][s], beta[t][s])],
         0, Len0(alpha[t]) - 1)

\* C6: for tables alpha and beta in which every row of alpha*beta has a
\* nonzero sum, gamma[t][s] = alpha[t][s]*beta[t][s] / sum over s' of
\* alpha[t][s']*beta[t][s'], so every row of gamma sums to 1.
C6_PosteriorRowsNormalized ==
    (pc = "posterior" /\ \A t \in DOMAIN alpha : ProductRowSum(t) # Zero) =>
        \A t \in DOMAIN alpha :
            /\ \A s \in DOMAIN alpha[t] :
                  gamma[t][s] =
                      RDiv(RMul(alpha[t][s], beta[t][s]), ProductRowSum(t))
            /\ RSum(gamma[t], 0, Len0(gamma[t]) - 1) = One

\* the rows of a square table are divided by the sums of other rows
C6_Witness ==
    /\ pc = "posterior"
    /\ Len0(alpha) = 2
    /\ Len0(alpha[0]) = 2
    /\ \A t \in DOMAIN alpha : ProductRowSum(t) # Zero
    /\ RSum(gamma[0], 0, 1) # One

OneStepOneSymbol == TargetLen = 1 /\ T_ = 1

\* C7 (as stated): for a one-symbol target and T = 1 the posterior at
\* positions 0 and 1 is [p_blank, p_symbol] normalized to sum 1.
C7_PosteriorIsNormalizedEmissions ==
    (pc = "posterior" /\ OneStepOneSymbol) =>
        LET p_blank == P(logits, 0, BLANK)
            p_symbol == P(logits, 0, target[0])
        IN  /\ gamma[0][0] = RDiv(p_blank, RAdd(p_blank, p_symbol))
            /\ gamma[0][1] = RDiv(p_symbol, RAdd(p_blank, p_symbol))

\* C7 (amended): for a one-symbol target and T = 1 with nonzero emission
\* probabilities the posterior is [0, 1, 0]: all mass is on the symbol.
C7_PosteriorIsSymbol ==
    (pc = "posterior" /\ OneStepOneSymbol) =>
        /\ gamma[0][0] = Zero
        /\ gamma[0][1] = One
        /\ gamma[0][2] = Zero

C7_Witness ==
    /\ pc = "posterior"
    /\ OneStepOneSymbol
    /\ target[0] # BLANK
    /\ P(logits, 0, BLANK) # P(logits, 0, target[0])

(***************************************************************************)
(* Claims about class CTCLoss                                              *)
(***************************************************************************)
BatchSize == Len0(target)

\* sample b's own 2-D probability matrix, truncated to its input length
OwnMatrix(b) == [t \in 0..(input_lengths[b] - 1) |-> logits[t][b]]

\* the extended sequence forward() stored for sample b
ExtOf(b) == extended_symbols[b + 1]

\* the posterior of sample b: the methods of class CTC applied to the
\* sample's own matrix and extended sequence
GammaOf(b) ==
    LET ext == ExtOf(b)
        skip == SkipConnect(ext)
    IN  PosteriorProbs(ForwardProbs(OwnMatrix(b), ext, skip),
                       BackwardProbs(OwnMatrix(b), ext, skip))

\* C8: the loss of batch element b is the negated sum, over t in
\* [0, input_lengths[b]) and s in [0, S), of gamma[t][s] * log(P(t, b, ext[s]))
\* with the sample's own probabilities, and nothing else.
C8_SampleLossIsExpectedLogLikelihood ==
    pc = "forward_returned" =>
        \A b \in 0..(BatchSize - 1) :
            total_loss[b] =
                LNeg(LSum([t \in 0..(input_lengths[b] - 1) |->
                              LSum([s \in DOMAIN ExtOf(b) |->
                                       LScale(GammaOf(b)[t][s],
                                              LogOf(logits[t][b][ExtOf(b)[s]]))],
                                   0, Len0(ExtOf(b)) - 1)],
                          0, input_lengths[b] - 1))

Perms(B) ==
    {f \in [0..(B - 1) -> 0..(B - 1)] :
        \A i, j \in 0..(B - 1) : f[i] = f[j] => i = j}

PermuteBatch(x, f) == [b \in DOMAIN f |-> x[f[b]]]

PermuteLogits(lg, f) == [t \in DOMAIN lg |-> PermuteBatch(lg[t], f)]

ForwardEnded == pc \in {"forward_returned", "forward_raised"}

\* C9: for every batch of B >= 1 samples forward() returns a value, which is
\* the mean of the B per-sample losses and is unchanged when the batch
\* elements are permuted (stated for vocabularies that hold at least one
\* label besides the blank).
C9_BatchMeanPermutationInvariant ==
    (ForwardEnded /\ NumClasses(logits) >= 2) =>
        /\ pc = "forward_returned"
        /\ loss = BatchMean(total_loss)
        /\ \A f \in Perms(BatchSize) :
              LET r == Forward(PermuteLogits(logits, f), PermuteBatch(target, f),
                               PermuteBatch(input_lengths, f),
                               PermuteBatch(target_lengths, f), converts)
              IN  r.err = "none" /\ r.loss = loss

BackwardEnded == pc \in {"backward_returned", "backward_raised"}

\* C10: after forward(), backward() returns dY of the shape of the logits
\* with, for every b, t < input_lengths[b] and class c, dY[t, b, c] = minus
\* the sum over the positions s with ext_b[s] = c of
\* gamma_b[t][s] / logits[t, b, c] (stated for vocabularies that hold at
\* least one label besides the blank).
C10_GradientIsPosteriorOverProbability ==
    (BackwardEnded /\ NumClasses(logits) >= 2) =>
        /\ pc = "backward_returned"
        /\ DOMAIN dY = DOMAIN logits
        /\ \A b \in 0..(BatchSize - 1) :
              \A t \in 0..(input_lengths[b] - 1) :
                  \A c \in DOMAIN logits[t][b] :
                      dY[t][b][c] =
                          RNeg(RSum([s \in DOMAIN ExtOf(b) |->
                                        IF ExtOf(b)[s] = c
                                        THEN RDiv(GammaOf(b)[t][s], logits[t][b][c])
                                        ELSE Zero],
                                    0, Len0(ExtOf(b)) - 1))

\* C11: in the tensor backward() returns, dY[t, b, c] is zero for every
\* sample b, every time step t >= input_lengths[b] and every class c.
C11_ZeroBeyondInputLength ==
    pc = "backward_returned" =>
        \A b \in 0..(BatchSize - 1) :
            \A t \in input_lengths[b]..(T_ - 1) :
                \A c \in DOMAIN dY[t][b] : dY[t][b][c] = Zero

\* backward() has returned a gradient for a sample shorter than the batch
C11_Witness ==
    /\ pc = "backward_returned"
    /\ \E b \in 0..(BatchSize - 1) :
          /\ input_lengths[b] < T_
          /\ dY[T_ - 1][b][0] # Zero

\* the classes of sample b's extended sequence as the claims describe it:
\* BLANK and the first target_lengths[b] labels of the sample
OwnClasses(b) ==
    {BLANK} \cup {target[b][i] : i \in 0..(target_lengths[b] - 1)}

\* C12: backward() returns a tensor in which dY[t, b, c] is zero for every
\* sample b, every time step t and every class c that is neither BLANK nor
\* one of the first target_lengths[b] labels of sample b (stated for
\* batches that hold such a class).
C12_ZeroOutsideExtendedSequence ==
    (BackwardEnded /\ \E b \in 0..(BatchSize - 1) :
                          DOMAIN logits[0][b] \ OwnClasses(b) # {}) =>
        /\ pc = "backward_returned"
        /\ \A b \in 0..(BatchSize - 1) : \A t \in 0..(T_ - 1) :
              \A c \in DOMAIN dY[t][b] \ OwnClasses(b) : dY[t][b][c] = Zero

\* number of samples for which the last forward() reached line 270
SamplesExtended == Len(extended_symbols)

\* C13: for every batch element b the target handed to
\* extend_target_with_blank has exactly target_lengths[b] labels: the
\* extended sequence forward() stores for b has length
\* 2*target_lengths[b]+1 and holds, at its odd positions, the first
\* target_lengths[b] labels of the sample and no padding label.  (The claim
\* says in addition that the passes get the sample's own 2-D matrix of
\* input_lengths[b] rows, see C8.)
C13_TruncatedBeforeExtend ==
    \A b \in 0..(SamplesExtended - 1) :
        /\ Len0(ExtOf(b)) = 2 * target_lengths[b] + 1
        /\ \A i \in 0..(target_lengths[b] - 1) : ExtOf(b)[2 * i + 1] = target[b][i]

\* forward() has extended a sample whose target is shorter than the padded
\* width: the extended sequence covers the whole padded row
C13_Witness ==
    /\ ForwardEnded
    /\ SamplesExtended >= 1
    /\ target_lengths[0] < Len0(target[0])
    /\ Len0(ExtOf(0)) = 2 * Len0(target[0]) + 1

\* C14: when backward() runs after forward(), for every sample b that
\* forward() extended, the extended sequence and the skip mask backward()
\* computes from the target of lines 336-340 are those forward() computed
\* (the sequence is the entry of self.extended_symbols), and the
\* probabilities backward() uses are those forward() used.
C14_BackwardRecomputesForward ==
    [][(pc # "constructed" /\ pc' \in {"backward_returned", "backward_raised"}
           /\ backward) =>
          /\ \A b \in 0..(SamplesExtended - 1) :
                /\ ExtSymbols(0, target'[b]) = ExtOf(b)
                /\ SkipConnect(ExtSymbols(0, target'[b])) = SkipConnect(ExtOf(b))
          /\ logits' = logits]_vars

\* backward() has run again through lines 336-340 for a sample whose target
\* and probability matrix forward() had cut to length 1
C14_Witness ==
    /\ BackwardEnded
    /\ SamplesExtended >= 1
    /\ target_lengths[0] = 1
    /\ Len0(target[0]) > 1
    /\ input_lengths[0] = 1
    /\ T_ > 1

\* the data of one more sample: rotation k of the probabilities and of the
\* labels, input length n and target length m
SampleLogits(k) == BatchLogits(T_, NumClasses(logits), <<k>>)
SampleTarget(k) == BatchTargets(Len0(target[0]), NumClasses(logits), <<k>>)[1]

\* the batch in which sample o has been replaced by that sample
ReplaceLogits(o, k) == [t \in DOMAIN logits |-> [logits[t] EXCEPT ![o] = SampleLogits(k)[t][1]]]
ReplaceIn(x, o, v) == [x EXCEPT ![o] = v]

\* what a call gives for sample b: its value, or None when the call raises
ResultFor(r, field, b) == IF r.err = "none" THEN r[field][b] ELSE None

\* C15: the loss forward() computes for batch element b, and the slice
\* dY[:, b, :] backward() computes, depend only on sample b's own logits
\* slice, target row, input length and target length: a batch that agrees
\* on sample b and differs in the other sample gives the same result for b.
C15_SampleIndependent ==
    BatchSize = 2 =>
        \A b \in {0, 1} : \A k \in 0..(MaxNum - 1) :
            \A n \in 1..T_ : \A m \in 1..Len0(target[0]) :
                LET o == 1 - b
                    lg2 == ReplaceLogits(o, k)
                    tg2 == ReplaceIn(target, o, SampleTarget(k))
                    il2 == ReplaceIn(input_lengths, o, n)
                    tl2 == ReplaceIn(target_lengths, o, m)
                IN  /\ ForwardEnded =>
                           ResultFor(Forward(lg2, tg2, il2, tl2, converts),
                                     "total_loss", b)
                           = ResultFor([err |-> err, total_loss |-> total_loss],
                                       "total_loss", b)
                    /\ BackwardEnded =>
                           LET r == Backward(lg2, tg2, il2, tl2, converts)
                           IN  ResultFor([err |-> r.err,
                                          dY |-> [x \in DOMAIN tg2 |->
                                                     [t \in DOMAIN lg2 |-> r.dY[t][x]]]],
                                         "dY", b)
                               = ResultFor([err |-> err,
                                            dY |-> [x \in DOMAIN target |->
                                                       [t \in DOMAIN logits |-> dY[t][x]]]],
                                           "dY", b)

\* C16: a CTCLoss constructed with BLANK = k interleaves symbol k into the
\* extended sequences its forward() builds: every even position of every
\* stored extended sequence holds BLANK.
C16_LossUsesItsBlank ==
    \A b \in 0..(SamplesExtended - 1) :
        \A s \in DOMAIN ExtOf(b) : s % 2 = 0 => ExtOf(b)[s] = BLANK

\* forward() of a CTCLoss with a nonzero BLANK has interleaved symbol 0
C16_Witness ==
    /\ ForwardEnded
    /\ SamplesExtended >= 1
    /\ BLANK # 0
    /\ ExtOf(0)[0] = 0

\* a label sequence extend_target_with_blank is specified to reject: empty,
\* or with a label that is no column of the probability matrix
InvalidTarget ==
    \/ TargetLen = 0
    \/ \E i \in DOMAIN target : target[i] \notin DOMAIN logits[0]

\* C17: extend_target_with_blank fails with an InvalidInputError and
\* returns no result when the label sequence is empty or holds a label
\* outside the vocabulary.
C17_ExtendRejectsInvalid ==
    (Extended /\ InvalidTarget) =>
        /\ err = "InvalidInputError"
        /\ extended_symbols = None
        /\ skip_connect = None

\* the empty label sequence has been extended to the single blank
C17_Witness ==
    /\ pc = "extended"
    /\ TargetLen = 0
    /\ err = "none"
    /\ S_ = 1
    /\ extended_symbols[0] = BLANK
    /\ skip_connect[0] = 0

(***************************************************************************)
(* CTCLoss.forward on batches the caller may have put together wrongly:    *)
(* one target row, logits and length arrays for one or two samples, and    *)
(* lengths from 0.  Labels are within the vocabulary.                      *)
(***************************************************************************)
InitMalformed ==
    /\ pc = "constructed"
    /\ err = "none"
    /\ converts \in BOOLEAN
    /\ BLANK = 0
    /\ \E B \in BatchSizes, T \in 1..MaxSeq, C \in 1..NumSymbols, W \in 1..MaxLen,
          k \in 0..(MaxNum - 1) :
          /\ logits = BatchLogits(T, C, [b \in 0..(B - 1) |-> k])
          /\ target = BatchTargets(W, C, [b \in {0} |-> k])
          /\ \E n \in BatchSizes : input_lengths \in [0..(n - 1) -> 0..T]
          /\ \E m \in BatchSizes : target_lengths \in [0..(m - 1) -> 0..W]
    /\ extended_symbols = None
    /\ total_loss = None
    /\ loss = None
    /\ dY = None
    /\ skip_connect = None
    /\ alpha = None
    /\ beta = None
    /\ gamma = None
    /\ NoCellLoop

NextMalformed == forward

SpecMalformed == InitMalformed /\ [][NextMalformed]_vars

\* the batch sizes of the four arguments disagree, or a length is zero
Malformed ==
    \/ Len0(logits[0]) # BatchSize
    \/ Len0(input_lengths) # BatchSize
    \/ Len0(target_lengths) # BatchSize
    \/ \E b \in DOMAIN input_lengths : input_lengths[b] = 0
    \/ \E b \in DOMAIN target_lengths : target_lengths[b] = 0

\* C18: forward() rejects a malformed batch as a whole: when the batch
\* sizes of logits, target, input_lengths and target_lengths disagree or an
\* input or target length is zero (or a label is out of vocabulary), the
\* call fails with an error and returns no loss value.
C18_MalformedBatchRejected ==
    (ForwardEnded /\ Malformed) =>
        /\ pc = "forward_raised"
        /\ err # "none"
        /\ loss = None

\* forward() has returned a loss for logits that hold one sample more than
\* the target
C18_Witness ==
    /\ pc = "forward_returned"
    /\ Len0(logits[0]) = BatchSize + 1
    /\ loss # None

(***************************************************************************)
(* The passes of class CTC cell by cell.  A step computes one cell         *)
(* alpha[t][s] or beta[t][s] from the table as it is at that moment; the   *)
(* cells of the row t of the outer loop are taken in any order.            *)
(***************************************************************************)
\* np.zeros(shape=(T, S)) with row r set to first (lines 89-95, 136-142)
ZerosWithRow(lg, ext, r, first) ==
    [t \in DOMAIN lg |-> IF t = r THEN first ELSE [s \in DOMAIN ext |-> Zero]]

\* mutant: the term of position s-1 is read from row t, alpha[t][s - 1]
AlphaCellSameRow(al, t, s, lg, ext, skip) ==
    RMul(RAdd(RAdd(al[t - 1][s],
                   IF s - 1 >= 0 THEN al[t][s - 1] ELSE Zero),
              IF skip[s] # 0 /\ s - 2 >= 0 THEN al[t - 1][s - 2] ELSE Zero),
         P(lg, t, ext[s]))

\* the value lines 101-107 leave in alpha[t][s], read from the table al
AlphaCell(al, t, s, lg, ext, skip) ==
    RMul(RAdd(RAdd(al[t - 1][s],
                   IF s - 1 >= 0 THEN al[t - 1][s - 1] ELSE Zero),
              IF skip[s] # 0 /\ s - 2 >= 0 THEN al[t - 1][s - 2] ELSE Zero),
         P(lg, t, ext[s]))

\* the value lines 146-151 leave in beta[t][s], read from the table be
BetaRawCell(be, t, s, lg, ext, skip) ==
    LET S == Len0(ext)
    IN  RMul(RAdd(RAdd(be[t + 1][s],
                       IF s + 1 < S THEN be[t + 1][s + 1] ELSE Zero),
                  IF skip[s] # 0 /\ s + 2 < S THEN be[t + 1][s + 2] ELSE Zero),
             P(lg, t, ext[s]))

\* the table after the loops of lines 99-107 have run on from cell (t, s)
\* in program order: t upwards, s upwards
RECURSIVE ForwardCellsFrom(_, _, _, _, _, _)
ForwardCellsFrom(al, t, s, lg, ext, skip) ==
    IF t >= Len0(lg) THEN al
    ELSE IF s >= Len0(ext) THEN ForwardCellsFrom(al, t + 1, 0, lg, ext, skip)
    ELSE ForwardCellsFrom(
             [al EXCEPT ![t][s] = AlphaCell(al, t, s, lg, ext, skip)],
             t, s + 1, lg, ext, skip)

\* get_forward_probs as the sequential program
ForwardSequential(lg, ext, skip) ==
    ForwardCellsFrom(ZerosWithRow(lg, ext, 0, AlphaRow0(lg, ext)),
                     1, 0, lg, ext, skip)

\* the table after the loops of lines 144-151 have run on from cell (t, s)
\* in program order: t downwards, s downwards
RECURSIVE BackwardCellsFrom(_, _, _, _, _, _)
BackwardCellsFrom(be, t, s, lg, ext, skip) ==
    IF t < 0 THEN be
    ELSE IF s < 0
    THEN BackwardCellsFrom(be, t - 1, Len0(ext) - 1, lg, ext, skip)
    ELSE BackwardCellsFrom(
             [be EXCEPT ![t][s] = BetaRawCell(be, t, s, lg, ext, skip)],
             t, s - 1, lg, ext, skip)

\* get_backward_probs before its division phase, as the sequential program
BackwardRawSequential(lg, ext, skip) ==
    BackwardCellsFrom(
        ZerosWithRow(lg, ext, Len0(lg) - 1, BetaRawLast(lg, ext)),
        Len0(lg) - 2, Len0(ext) - 1, lg, ext, skip)

\* lines 88-95: alpha is allocated and row 0 is initialised
forward_start ==
    /\ pc = "extended"
    /\ alpha' = ZerosWithRow(logits, extended_symbols, 0,
                             AlphaRow0(logits, extended_symbols))
    /\ t_loop' = 1
    /\ s_done' = {}
    /\ pc' = IF Len0(logits) > 1 THEN "forward_row" ELSE "forward"
    /\ UNCHANGED <<err, BLANK, target, logits, extended_symbols, skip_connect,
                   beta, gamma>>
    /\ UNCHANGED lossVars

\* one iteration of the loop of line 100 for row t_loop, for any position
\* s of the row that has not been computed yet
forward_cell ==
    /\ pc = "forward_row"
    /\ \E s \in DOMAIN extended_symbols \ s_done :
          /\ alpha' = [alpha EXCEPT ![t_loop][s] =
                          AlphaCell(alpha, t_loop, s, logits, extended_symbols,
                                    skip_connect)]
          /\ IF s_done \cup {s} = DOMAIN extended_symbols
             THEN /\ s_done' = {}
                  /\ t_loop' = t_loop + 1
                  /\ pc' = IF t_loop + 1 < Len0(logits) THEN "forward_row"
                           ELSE "forward"
             ELSE /\ s_done' = s_done \cup {s}
                  /\ UNCHANGED <<t_loop, pc>>
    /\ UNCHANGED <<err, BLANK, target, logits, extended_symbols, skip_connect,
                   beta, gamma>>
    /\ UNCHANGED lossVars

\* lines 135-142: beta is allocated and row T-1 is initialised
backward_start ==
    /\ pc = "forward"
    /\ beta' = ZerosWithRow(logits, extended_symbols, Len0(logits) - 1,
                            BetaRawLast(logits, extended_symbols))
    /\ t_loop' = Len0(logits) - 2
    /\ s_done' = {}
    /\ pc' = IF Len0(logits) > 1 THEN "backward_row" ELSE "backward_divide"
    /\ UNCHANGED <<err, BLANK, target, logits, extended_symbols, skip_connect,
                   alpha, gamma>>
    /\ UNCHANGED lossVars

\* one iteration of the loop of line 145 for row t_loop, for any position
\* s of the row that has not been computed yet
backward_cell ==
    /\ pc = "backward_row"
    /\ \E s \in DOMAIN extended_symbols \ s_done :
          /\ beta' = [beta EXCEPT ![t_loop][s] =
                         BetaRawCell(beta, t_loop, s, logits, extended_symbols,
                                     skip_connect)]
          /\ IF s_done \cup {s} = DOMAIN extended_symbols
             THEN /\ s_done' = {}
                  /\ t_loop' = t_loop - 1
                  /\ pc' = IF t_loop - 1 >= 0 THEN "backward_row"
                           ELSE "backward_divide"
             ELSE /\ s_done' = s_done \cup {s}
                  /\ UNCHANGED <<t_loop, pc>>
    /\ UNCHANGED <<err, BLANK, target, logits, extended_symbols, skip_connect,
                   alpha, gamma>>
    /\ UNCHANGED lossVars

\* the division phase of lines 153-155 and the return
backward_divide ==
    /\ pc = "backward_divide"
    /\ beta' = BetaDivide(beta, logits, extended_symbols)
    /\ pc' = "backward"
    /\ UNCHANGED <<err, BLANK, target, logits, extended_symbols, skip_connect,
                   alpha, gamma>>
    /\ UNCHANGED lossVars
    /\ UNCHANGED cellVars

\* extended sequences whose symbols count up from k, with any mask
CellSequences ==
    {[s \in 0..(S - 1) |-> (k + s) % NumSymbols] : k \in Symbols, S \in 3..MaxS}

\* probability matrices whose row t is rotation k+t
CellMatrices ==
    {ProbMatrix(T, k, [t \in 1..(T - 1) |-> t]) :
        T \in 1..MaxT, k \in 0..(MaxNum - 1)}

InitCells ==
    /\ pc = "extended"
    /\ err = "none"
    /\ BLANK = 0
    /\ target = None
    /\ logits \in CellMatrices
    /\ extended_symbols \in CellSequences
    /\ skip_connect \in [DOMAIN extended_symbols -> {0, 1}]
    /\ alpha = None
    /\ beta = None
    /\ gamma = None
    /\ NoLossCall
    /\ NoCellLoop

NextCells ==
    \/ forward_start
    \/ forward_cell
    \/ backward_start
    \/ backward_cell
    \/ backward_divide

SpecCells == InitCells /\ [][NextCells]_vars

\* C19: within one time step the cells of a row may be computed in any
\* order of s: whatever the order of the per-s updates, get_forward_probs
\* ends with the table of the sequential loop, and get_backward_probs
\* enters its division phase, and ends, with the tables of the sequential
\* loop.
C19_RowOrderIrrelevant ==
    /\ pc \in {"forward", "backward_row", "backward_divide", "backward"} =>
          /\ alpha = ForwardSequential(logits, extended_symbols, skip_connect)
          /\ alpha = ForwardProbs(logits, extended_symbols, skip_connect)
    /\ pc = "backward_divide" =>
          beta = BackwardRawSequential(logits, extended_symbols, skip_connect)
    /\ pc = "backward" =>
          /\ beta = BetaDivide(BackwardRawSequential(logits, extended_symbols,
                                                     skip_connect),
                               logits, extended_symbols)
          /\ beta = BackwardProbs(logits, extended_symbols, skip_connect)

\* a row of alpha is being filled from its last position downwards and a
\* skip transition has put mass into the cell computed first
C19_Witness ==
    /\ pc = "forward_row"
    /\ s_done = {S_ - 1}
    /\ skip_connect[S_ - 1] = 1
    /\ alpha[t_loop][S_ - 1] # Zero

C21_KeptElementsUnchanged ==
    [][\A b \in DOMAIN target :
          /\ \A t \in 0..(input_lengths[b] - 1) : logits'[t][b] = logits[t][b]
          /\ \A i \in 0..(target_lengths[b] - 1) : target'[b][i] = target[b][i]]_vars

\* a call has overwritten the rows of a sample beyond its input length and
\* the labels beyond its target length
C21_Witness ==
    /\ ForwardEnded \/ BackwardEnded
    /\ \E b \in DOMAIN target :
          /\ input_lengths[b] < T_
          /\ logits[T_ - 1][b] = logits[0][b]
          /\ target_lengths[b] < Len0(target[b])
          /\ NumClasses(logits) >= 2
          /\ target[b][1] = target[b][0]

\* the sum over s of alpha[t][s] * beta[t][s]
PathMass(t) == ProductRowSum(t)

\* C22: with the extended sequence and skip mask of
\* extend_target_with_blank, the sum over s of alpha[t][s]*beta[t][s] has
\* the same value at every time step t, and that value is
\* alpha[T-1][S-1] + alpha[T-1][S-2], the total probability of the target.
C22_SameTopology ==
    (pc \in {"backward", "posterior"} /\ TargetLen >= 1) =>
        \A t \in 0..(T_ - 1) :
            PathMass(t) = RAdd(alpha[T_ - 1][S_ - 1], alpha[T_ - 1][S_ - 2])

\* the backward pass has taken a skip transition the forward pass has not
C22_Witness ==
    /\ pc = "backward"
    /\ T_ = 2
    /\ TargetLen = 2
    /\ target[0] # target[1]
    /\ PathMass(0) # PathMass(1)

(***************************************************************************)
(* One CTCLoss object over any sequence of calls: forward() on any batch   *)
(* of the family below, backward() at any time.  Before the first          *)
(* forward() the fields of the object are not set.                         *)
(***************************************************************************)
\* the batches of one sample with one label handed to forward()
CallBatches ==
    {[logits |-> BatchLogits(T, C, [b \in {0} |-> k]),
      target |-> BatchTargets(1, C, [b \in {0} |-> k]),
      input_lengths |-> [b \in {0} |-> n],
      target_lengths |-> [b \in {0} |-> 1]] :
        T \in 1..MaxSeq, C \in {1, 2}, k \in {0, 1}, n \in 1..MaxSeq}

\* loss = CTCLoss.forward(a.logits, a.target, a.input_lengths,
\* a.target_lengths) for new arrays a: lines 247-250 store the four
\* arguments in the object, line 258 empties self.extended_symbols
forward_call ==
    \E a \in CallBatches :
        /\ a.input_lengths[0] <= Len0(a.logits)
        /\ \E r \in {Forward(a.logits, a.target, a.input_lengths,
                            a.target_lengths, converts)} :
               /\ logits' = r.logits
               /\ target' = r.target
               /\ input_lengths' = a.input_lengths
               /\ target_lengths' = a.target_lengths
               /\ extended_symbols' = r.extended_symbols
               /\ total_loss' = r.total_loss
               /\ loss' = r.loss
               /\ err' = r.err
               /\ pc' = IF r.err = "none" THEN "forward_returned"
                        ELSE "forward_raised"
        /\ UNCHANGED <<BLANK, dY, converts>>
        /\ UNCHANGED passVars
        /\ UNCHANGED cellVars

InitCalls ==
    /\ pc = "constructed"
    /\ err = "none"
    /\ converts \in BOOLEAN
    /\ BLANK = 0
    /\ logits = None
    /\ target = None
    /\ input_lengths = None
    /\ target_lengths = None
    /\ extended_symbols = None
    /\ total_loss = None
    /\ loss = None
    /\ dY = None
    /\ skip_connect = None
    /\ alpha = None
    /\ beta = None
    /\ gamma = None
    /\ NoCellLoop

NextCalls ==
    \/ forward_call
    \/ backward

SpecCalls == InitCalls /\ [][NextCalls]_vars

\* C23: in any sequence of calls, what backward() gives is the gradient
\* (or the error) for the logits, targets and lengths of the most recent
\* forward() call, which are the fields the object holds, and nothing of
\* an earlier call; a backward() before any forward() fails and returns
\* no gradient.
C23_BackwardOfLatestForward ==
    /\ BackwardEnded =>
          LET r == Backward(logits, target, input_lengths, target_lengths,
                            converts)
          IN  dY = r.dY /\ err = r.err
    /\ pc = "backward_raised_unset" => err = "AttributeError" /\ dY = None
    /\ logits = None => dY = None

\* backward() has returned the gradient of a batch of three time steps,
\* one of several batches forward() is called with
C23_Witness ==
    /\ pc = "backward_returned"
    /\ T_ = 3
    /\ dY[0][0][0] = RNeg(RDiv(One, logits[0][0][0]))
    /\ logits[0][0][0] = ProbVal(2)

\* C24: backward() does not accumulate across calls: a backward() call
\* that follows a backward() call that returned, with no forward() in
\* between, returns an equal tensor; and a forward() call on the arrays of
\* a forward() call that returned returns the same loss.
C24_RepeatedCallsAgree ==
    [][/\ (pc = "backward_returned"
             /\ pc' \in {"backward_returned", "backward_raised"}) =>
             (pc' = "backward_returned" /\ dY' = dY)
       /\ (pc = "forward_returned"
             /\ pc' \in {"forward_returned", "forward_raised"}) =>
             (pc' = "forward_returned" /\ loss' = loss
                /\ total_loss' = total_loss)]_vars

\* backward() has returned a tensor that is nonzero in every row, for a
\* sample whose probability matrix forward() has cut
C24_Witness ==
    /\ pc = "backward_returned"
    /\ T_ = 3
    /\ input_lengths[0] = 1
    /\ \A t \in 0..(T_ - 1) : dY[t][0][0] # Zero

(***************************************************************************)
(* The passes on probability matrices that may hold the probability 0     *)
(***************************************************************************)
\* the matrix m with probability 0 for class z at every time step
ZeroClass(m, z) ==
    [t \in DOMAIN m |-> [c \in DOMAIN m[t] |-> IF c = z THEN Zero ELSE m[t][c]]]

ZeroMatrices ==
    CellMatrices \cup {ZeroClass(m, z) : m \in CellMatrices, z \in Symbols}

InitPassZero ==
    /\ pc = "extended"
    /\ err = "none"
    /\ BLANK = 0
    /\ target = None
    /\ logits \in ZeroMatrices
    /\ extended_symbols \in CellSequences
    /\ skip_connect \in [DOMAIN extended_symbols -> {0, 1}]
    /\ alpha = None
    /\ beta = None
    /\ gamma = None
    /\ NoLossCall
    /\ NoCellLoop

NextPassZero ==
    \/ get_forward_probs
    \/ get_backward_probs

SpecPassZero == InitPassZero /\ [][NextPassZero]_vars

NonzeroMatrix ==
    \A t \in DOMAIN logits : \A c \in DOMAIN logits[t] : logits[t][c] # Zero

AlphaBeyondLatticeIsZero ==
    \A t \in 0..(T_ - 1) : \A s \in 0..(S_ - 1) :
        s > 2 * t + 1 => alpha[t][s] = Zero

BetaBeyondLatticeIsZero ==
    \A t \in 0..(T_ - 1) : \A s \in 0..(S_ - 1) :
        s < S_ - 2 * (T_ - t) => beta[t][s] = Zero

====
